---- MODULE Spec2Model ----
(***************************************************************************)
(* A model of src/http_client.rs: the UdemyHttpClient operations           *)
(* get_as_text, get_as_json, get_content_length, get_as_data, post_json    *)
(* and the private helpers has_http_range and construct_headers.           *)
(*                                                                         *)
(* Every call is a sequential process with its own locals.  A blocking     *)
(* request is two steps: the request is put on the wire (...Send), and the   *)
(* transport hands back an outcome (...Recv), after which the code runs up   *)
(* to its next request or to its return.  The transport and the server are *)
(* the environment: every outcome is a nondeterministic choice.            *)
(***************************************************************************)
EXTENDS Integers, Sequences, FiniteSets, TLC

(***************************************************************************)
(* Program constants.                                                      *)
(***************************************************************************)
DEFAULT_UA ==
    "Mozilla/5.0 (Windows NT 6.1; WOW64) AppleWebKit/537.21 (KHTML, like Gecko) Mwendo/1.1.5 Safari/537.21"

CHUNK == 2 * 1024 * 1024

(***************************************************************************)
(* Bounds of the model.                                                    *)
(***************************************************************************)
\* content lengths range up to MaxChunks * CHUNK + 1
MaxChunks == 1

\* a response body read by get_as_data holds at most MaxBody bytes
MaxBody == 1

\* a response text read by get_as_text holds at most MaxText characters
MaxText == 3

(***************************************************************************)
(* Option and Result values.                                               *)
(***************************************************************************)
None == [some |-> FALSE]

Some(v) == [some |-> TRUE, v |-> v]

Ok(v) == [kind |-> "ok", value |-> v]

\* a failure::Error made by format_err!: the format string, and the
\* arguments that are interpolated into it (the url, the status)
FormatErr(fmt, u, s) == [kind |-> "err", class |-> "format_err", msg |-> fmt, url |-> u, status |-> s]

\* a reqwest::Error converted by `?`; `detail` is what the transport reports
\* (why send() failed, or that the body broke off)
TransportErr(detail) == [kind |-> "err", class |-> "reqwest", msg |-> detail, url |-> None, status |-> None]

\* a panic unwinding out of the call (no Result is returned)
Panic(what) == [kind |-> "panic", msg |-> what]

NoResult == [kind |-> "running"]

(***************************************************************************)
(* Inputs and environment.                                                 *)
(***************************************************************************)
Calls == {1, 2}

Ops == {"get_as_data", "get_as_text", "get_as_json", "get_content_length", "post_json"}

Urls == {"https://a/x", "https://b/y"}

\* access tokens, as the bytes of an ASCII String: "tkA", "tkB", "t" and a
\* tab and "A", "t" and a line feed, "t" and a form feed, "t" and DEL
Tokens ==
    {<<116, 107, 65>>, <<116, 107, 66>>, <<116, 9, 65>>,
     <<116, 10>>, <<116, 12>>, <<116, 127>>}

Auths == {[access_token |-> None]} \cup {[access_token |-> Some(t)] : t \in Tokens}

NoAuth == [access_token |-> None]

JsonPayloads == {"{}", "[1]"}

Statuses == {200, 204, 206, 404}

Bytes == {1, 2}

RECURSIVE SeqsUpTo(_, _)
SeqsUpTo(S, n) ==
    IF n = 0 THEN {<<>>}
    ELSE LET shorter == SeqsUpTo(S, n - 1)
         IN  shorter \cup {Append(s, x) : s \in {t \in shorter : Len(t) = n - 1}, x \in S}

Bodies == SeqsUpTo(Bytes, MaxBody)

TextChars == {"[", "]", "0", " "}

Texts == SeqsUpTo(TextChars, MaxText)

Totals ==
    {t \in {k * CHUNK + d : k \in 0 .. MaxChunks, d \in {-1, 0, 1}} : t >= 0} \cup {5000000}

\* the ways send() can fail
TransportCauses == {"connect", "timeout"}

SendErrors == {[kind |-> "senderr", cause |-> x] : x \in TransportCauses}

\* what a HEAD can come back with, as far as has_http_range looks at it
RangeProbeOutcomes ==
    SendErrors
    \cup {[kind |-> "resp", status |-> s, accept_ranges |-> a] : s \in Statuses, a \in BOOLEAN}

\* what a HEAD can come back with, as far as get_content_length looks at it
LengthProbeOutcomes ==
    SendErrors
    \cup {[kind |-> "resp", status |-> s, content_length |-> l] :
            s \in Statuses, l \in {None} \cup {Some(t) : t \in Totals}}

\* what send() of a GET can come back with: it fails, or the status and the
\* headers of the response arrive (the body has not been read then)
DataOutcomes == SendErrors \cup {[kind |-> "resp", status |-> s] : s \in Statuses}

TextOutcomes == SendErrors \cup {[kind |-> "resp", status |-> s] : s \in Statuses}

\* what reading the body of a response can come back with, when the code
\* reads it: the body arrives in full, or the read breaks off
DataBodies == {Some(b) : b \in Bodies} \cup {None}

TextBodies == {Some(b) : b \in Texts} \cup {None}

\* a response whose body has been read, as the functions below look at it
WithBody(h, b) == [kind |-> "resp", status |-> h.status, body |-> b]

PostOutcomes ==
    SendErrors \cup {[kind |-> "resp", status |-> s] : s \in Statuses}

(***************************************************************************)
(* Library functions the code calls, modelled by what they do.             *)
(***************************************************************************)
\* a variant of is_success that accepts 200 only
is_success_only_200(status) == status = 200

\* StatusCode::is_success: the 2xx class
is_success(status) == status >= 200 /\ status <= 299

Digit(d) ==
    CASE d = 0 -> "0" [] d = 1 -> "1" [] d = 2 -> "2" [] d = 3 -> "3" [] d = 4 -> "4"
      [] d = 5 -> "5" [] d = 6 -> "6" [] d = 7 -> "7" [] d = 8 -> "8" [] d = 9 -> "9"

\* format!("{}", n) of an unsigned integer: its decimal digits
RECURSIVE ToDec(_)
ToDec(n) == IF n < 10 THEN Digit(n) ELSE ToDec(n \div 10) \o Digit(n % 10)

\* the characters of the bytes 32 .. 95 and of the bytes 97 .. 126, in order
\* (the grave accent, byte 96, cannot be written in a string here)
AsciiLow ==
    <<
      " ", "!", "\"", "#", "$", "%", "&", "'", "(", ")", "*", "+", ",", "-", ".", "/",
      "0", "1", "2", "3", "4", "5", "6", "7", "8", "9", ":", ";", "<", "=", ">", "?",
      "@", "A", "B", "C", "D", "E", "F", "G", "H", "I", "J", "K", "L", "M", "N", "O",
      "P", "Q", "R", "S", "T", "U", "V", "W", "X", "Y", "Z", "[", "\\", "]", "^", "_"
    >>

AsciiHigh ==
    <<
      "a", "b", "c", "d", "e", "f", "g", "h", "i", "j", "k", "l", "m", "n", "o", "p",
      "q", "r", "s", "t", "u", "v", "w", "x", "y", "z", "{", "|", "}", "~"
    >>

\* the character of a byte a header value may hold
AsciiChar(b) ==
    CASE b = 9 -> "\t"
      [] b \in 32 .. 95 -> AsciiLow[b - 31]
      [] b \in 97 .. 126 -> AsciiHigh[b - 96]

\* the String made of a sequence of such bytes
RECURSIVE Concat(_)
Concat(bytes) ==
    IF bytes = <<>> THEN "" ELSE AsciiChar(Head(bytes)) \o Concat(Tail(bytes))

\* http::header::value::is_valid: a byte a header value may hold
is_valid(b) == (b >= 32 /\ b # 127) \/ b = 9

\* the ASCII bytes HeaderValue::from_str rejects: the control characters
\* other than tab, and DEL
InvalidHeaderChars == {b \in 0 .. 127 : ~is_valid(b)}

\* HeaderValue::from_str on the bytes of an ASCII String
HeaderValueFromStr(bytes) ==
    IF \E i \in 1 .. Len(bytes) : bytes[i] \in InvalidHeaderChars
    THEN [kind |-> "err"]
    ELSE Ok(Concat(bytes))

\* HeaderMap::insert: one value per name, the last one inserted
HeaderInsert(headers, name, value) ==
    {h \in headers : h[1] # name} \cup {<<name, value>>}

\* a variant of copy_to that leaves the writer as it was
copy_to_nothing(w, body) == w

\* io::copy into a Vec<u8>: Write for Vec appends to what the Vec holds
copy_to(w, body) == w \o body

\* serde_json::from_str on the JSON subset that Texts can spell: the number
\* 0 and arrays of at most one element, with whitespace
JsonNumber(n) == [t |-> "number", n |-> n]

JsonArray(items) == [t |-> "array", items |-> items]

RECURSIVE SkipWs(_, _)
SkipWs(text, i) ==
    IF i <= Len(text) /\ text[i] = " " THEN SkipWs(text, i + 1) ELSE i

RECURSIVE ParseValue(_, _)
ParseValue(text, i) ==
    LET j == SkipWs(text, i)
        fail == [ok |-> FALSE]
    IN  IF j > Len(text) THEN fail
        ELSE IF text[j] = "0"
        THEN IF j < Len(text) /\ text[j + 1] = "0" THEN fail
             ELSE [ok |-> TRUE, val |-> JsonNumber(0), next |-> j + 1]
        ELSE IF text[j] = "["
        THEN LET k == SkipWs(text, j + 1)
             IN  IF k > Len(text) THEN fail
                 ELSE IF text[k] = "]"
                 THEN [ok |-> TRUE, val |-> JsonArray(<<>>), next |-> k + 1]
                 ELSE LET e == ParseValue(text, k)
                      IN  IF ~e.ok THEN fail
                          ELSE LET m == SkipWs(text, e.next)
                               IN  IF m <= Len(text) /\ text[m] = "]"
                                   THEN [ok |-> TRUE, val |-> JsonArray(<<e.val>>),
                                         next |-> m + 1]
                                   ELSE fail
        ELSE fail

from_str(text) ==
    LET r == ParseValue(text, 1)
    IN  IF r.ok /\ SkipWs(text, r.next) > Len(text) THEN Ok(r.val) ELSE [kind |-> "err"]

(***************************************************************************)
(* The functions of http_client.rs, as functions of their arguments and of *)
(* the outcome of the request they make.                                   *)
(***************************************************************************)
\* the bytes of format!("Bearer {}", token)
BearerChars(token) == <<66, 101, 97, 114, 101, 114, 32>> \o token

\* a variant of construct_headers that leaves the bearer headers out when
\* there is no token
construct_headers_lenient(a) ==
    IF ~a.access_token.some
    THEN Ok(HeaderInsert({}, "user-agent", DEFAULT_UA))
    ELSE LET bearer == HeaderValueFromStr(BearerChars(a.access_token.v))
         IN  IF bearer.kind # "ok"
             THEN Panic("Result::unwrap on Err")
             ELSE Ok(HeaderInsert(
                        HeaderInsert(
                            HeaderInsert({}, "authorization", bearer.value),
                            "x-udemy-authorization", bearer.value),
                        "user-agent", DEFAULT_UA))

\* a variant of construct_headers whose custom header holds the bare token
construct_headers_bare_custom(a) ==
    IF ~a.access_token.some
    THEN Panic("Option::unwrap on None")
    ELSE LET bearer == HeaderValueFromStr(BearerChars(a.access_token.v))
             bare == HeaderValueFromStr(a.access_token.v)
         IN  IF bearer.kind # "ok"
             THEN Panic("Result::unwrap on Err")
             ELSE Ok(HeaderInsert(
                        HeaderInsert(
                            HeaderInsert({}, "authorization", bearer.value),
                            "x-udemy-authorization", bare.value),
                        "user-agent", DEFAULT_UA))

construct_headers(a) ==
    IF ~a.access_token.some
    THEN Panic("Option::unwrap on None")
    ELSE LET bearer == HeaderValueFromStr(BearerChars(a.access_token.v))
         IN  IF bearer.kind # "ok"
             THEN Panic("Result::unwrap on Err")
             ELSE Ok(HeaderInsert(
                        HeaderInsert(
                            HeaderInsert({}, "authorization", bearer.value),
                            "x-udemy-authorization", bearer.value),
                        "user-agent", DEFAULT_UA))

\* a variant of get_as_text whose status error leaves the status out
get_as_text_no_status(u, o) ==
    IF o.kind = "senderr" THEN TransportErr(o.cause)
    ELSE IF is_success(o.status)
    THEN IF o.body.some THEN Ok(o.body.v) ELSE TransportErr("body")
    ELSE FormatErr("Error while getting from url <{}>", Some(u), None)

get_as_text(u, o) ==
    IF o.kind = "senderr" THEN TransportErr(o.cause)
    ELSE IF is_success(o.status)
    THEN IF o.body.some THEN Ok(o.body.v) ELSE TransportErr("body")
    ELSE FormatErr("Error while getting from url <{}>: <{}>", Some(u), Some(o.status))

\* a variant of get_as_json that takes the first JSON value of the text and
\* does not look at what follows it
get_as_json_prefix(u, text) ==
    IF text.kind = "ok"
    THEN LET parsed == ParseValue(text.value, 1)
         IN  IF parsed.ok THEN Ok(parsed.val)
             ELSE FormatErr("Error parsing json from url <{}>: {:?}", Some(u), None)
    ELSE text

get_as_json(u, text) ==
    IF text.kind = "ok"
    THEN LET parsed == from_str(text.value)
         IN  IF parsed.kind = "ok" THEN parsed
             ELSE FormatErr("Error parsing json from url <{}>: {:?}", Some(u), None)
    ELSE text

\* a variant of get_content_length that takes a missing content-length for 0
get_content_length_default_0(u, o) ==
    IF o.kind = "senderr" THEN TransportErr(o.cause)
    ELSE IF is_success(o.status)
    THEN IF o.content_length.some THEN Ok(o.content_length.v) ELSE Ok(0)
    ELSE FormatErr("Error while trying to access url <{}> - <{}>", Some(u), Some(o.status))

\* a variant of get_content_length that does not look at the status
get_content_length_any_status(u, o) ==
    IF o.kind = "senderr" THEN TransportErr(o.cause)
    ELSE IF o.content_length.some THEN Ok(o.content_length.v)
    ELSE FormatErr("Error getting length of url <{}>", Some(u), None)

get_content_length(u, o) ==
    IF o.kind = "senderr" THEN TransportErr(o.cause)
    ELSE IF is_success(o.status)
    THEN IF o.content_length.some THEN Ok(o.content_length.v)
         ELSE FormatErr("Error getting length of url <{}>", Some(u), None)
    ELSE FormatErr("Error while trying to access url <{}> - <{}>", Some(u), Some(o.status))

\* a variant of has_http_range that lets the transport error through
has_http_range_propagates(o) ==
    IF o.kind = "senderr" THEN TransportErr(o.cause)
    ELSE Ok(o.accept_ranges)

has_http_range(o) ==
    IF o.kind = "senderr" THEN FormatErr("Could not check http range", None, None)
    ELSE Ok(o.accept_ranges)

\* a variant of post_json that turns a non-2xx status into an error
post_json_checks_status(o) ==
    IF o.kind = "senderr" THEN TransportErr(o.cause)
    ELSE IF is_success(o.status) THEN Ok(<<>>)
    ELSE FormatErr("Error while posting", None, Some(o.status))

post_json(o) ==
    IF o.kind = "senderr" THEN TransportErr(o.cause) ELSE Ok(<<>>)

\* the pieces of the download loop of get_as_data
\* a variant of RangeHeader whose last byte is the first byte of the next chunk
RangeHeader_overlap(off) == "bytes=" \o ToDec(off) \o "-" \o ToDec(off + CHUNK)

RangeHeader(off) == "bytes=" \o ToDec(off) \o "-" \o ToDec(off + CHUNK - 1)

\* a variant of ProgressValue that reports the offset before it is advanced
ProgressValue_before(off) == off

ProgressValue(off) == off + CHUNK

\* a variant of NextOffset that does not advance
NextOffset_stuck(off) == off

NextOffset(off) == off + CHUNK

\* a variant of LoopExit that also stops when the offset reaches total
LoopExit_at_total(off, tot) == off >= tot

\* a loop that stops one chunk later
LoopExit_late(off, tot) == off > tot + CHUNK

LoopExit(off, tot) == off > tot

\* a variant of AppendChunk that puts the new chunk in front of the buffer
AppendChunk_front(b, temp_buf) == temp_buf \o b

AppendChunk(b, temp_buf) == b \o temp_buf

\* the u64 that Response::copy_to returns: the number of bytes copied
CopySize(body) == Len(body)

(***************************************************************************)
(* State.                                                                  *)
(***************************************************************************)
VARIABLES
    call,        \* call[c]: the operation call c invokes, with its arguments
    pc,          \* pc[c]: where call c stands in its code
    http_range,  \* http_range[c]: what has_http_range returned to get_as_data
    total,       \* total[c], offset[c], buf[c]: the locals of get_as_data
    offset,
    buf,
    resp,        \* resp[c]: the response send() returned to call c whose body
                 \*          the call has still to read, if there is one
    log,         \* log[c]: the requests sent, the outcomes received and the
                 \*         invocations of the progress callback f, in order; a
                 \*         response is entered when the call is through with
                 \*         it, with its body if the call has read it
    result       \* result[c]: what the call returned

vars == <<call, pc, http_range, total, offset, buf, resp, log, result>>

Req(method, u, headers, body, by) ==
    [ev |-> "req", method |-> method, url |-> u, headers |-> headers, body |-> body, by |-> by]

Resp(o) == [ev |-> "resp", outcome |-> o]

Cb(v) == [ev |-> "cb", value |-> v]

Idle == [op |-> "idle"]

CallArgs ==
    {[op |-> o, url |-> u] : o \in {"get_as_data", "get_content_length"}, u \in Urls}
    \cup {[op |-> o, url |-> u, auth |-> a] :
            o \in {"get_as_text", "get_as_json"}, u \in Urls, a \in Auths}
    \cup {[op |-> "post_json", url |-> u, json |-> j, auth |-> a] :
            u \in Urls, j \in JsonPayloads, a \in Auths}

Entry(args) ==
    CASE args.op = "get_as_data" -> "has_http_range"
      [] args.op = "get_content_length" -> "get_content_length"
      [] args.op \in {"get_as_text", "get_as_json"} -> "get_as_text"
      [] args.op = "post_json" -> "post_json"
      [] OTHER -> "done"

\* the calls of `active` are invoked, the others never are
InitCalls(active) ==
    /\ call \in [Calls -> CallArgs \cup {Idle}]
    /\ \A c \in Calls : call[c] = Idle <=> c \notin active
    /\ pc = [c \in Calls |-> Entry(call[c])]
    /\ http_range = [c \in Calls |-> NoResult]
    /\ total = [c \in Calls |-> 0]
    /\ offset = [c \in Calls |-> 0]
    /\ buf = [c \in Calls |-> <<>>]
    /\ resp = [c \in Calls |-> None]
    /\ log = [c \in Calls |-> <<>>]
    /\ result = [c \in Calls |-> NoResult]

Init == InitCalls({1})

\* the call returns r (or unwinds with the panic r)
Return(c, r) ==
    /\ result' = [result EXCEPT ![c] = r]
    /\ pc' = [pc EXCEPT ![c] = "done"]

Goto(c, label) ==
    /\ pc' = [pc EXCEPT ![c] = label]
    /\ UNCHANGED result

Logged(c, events) == log' = [log EXCEPT ![c] = @ \o events]

(***************************************************************************)
(* get_as_data, with has_http_range and get_content_length.                *)
(***************************************************************************)
HasHttpRangeSend(c) ==
    /\ pc[c] = "has_http_range"
    /\ Logged(c, <<Req("HEAD", call[c].url, {}, None, "has_http_range")>>)
    /\ Goto(c, "has_http_range_recv")
    /\ UNCHANGED <<call, http_range, total, offset, buf, resp>>

HasHttpRangeRecv(c) ==
    /\ pc[c] = "has_http_range_recv"
    /\ \E o \in RangeProbeOutcomes :
          LET r == has_http_range(o)
          IN  /\ Logged(c, <<Resp(o)>>)
              /\ http_range' = [http_range EXCEPT ![c] = r]
              /\ IF r.kind # "ok" THEN Return(c, r)
                 ELSE IF r.value THEN Goto(c, "get_content_length")
                 ELSE Goto(c, "get")
    /\ UNCHANGED <<call, total, offset, buf, resp>>

GetContentLengthSend(c) ==
    /\ pc[c] = "get_content_length"
    /\ Logged(c, <<Req("HEAD", call[c].url, {}, None, "get_content_length")>>)
    /\ Goto(c, "get_content_length_recv")
    /\ UNCHANGED <<call, http_range, total, offset, buf, resp>>

\* a variant in which the accumulator of the ranged download lives on the
\* client, so that starting one download resets it for every call
GetContentLengthRecv_shared(c) ==
    /\ pc[c] = "get_content_length_recv"
    /\ \E o \in LengthProbeOutcomes :
          LET r == get_content_length(call[c].url, o)
          IN  /\ Logged(c, <<Resp(o)>>)
              /\ IF call[c].op = "get_as_data" /\ r.kind = "ok"
                 THEN /\ total' = [total EXCEPT ![c] = r.value]
                      /\ offset' = [d \in Calls |-> 0]
                      /\ buf' = [d \in Calls |-> <<>>]
                      /\ Goto(c, "range_get")
                 ELSE /\ Return(c, r)
                      /\ UNCHANGED <<total, offset, buf>>
    /\ UNCHANGED <<call, http_range, resp>>

GetContentLengthRecv(c) ==
    /\ pc[c] = "get_content_length_recv"
    /\ \E o \in LengthProbeOutcomes :
          LET r == get_content_length(call[c].url, o)
          IN  /\ Logged(c, <<Resp(o)>>)
              /\ IF call[c].op = "get_as_data" /\ r.kind = "ok"
                 THEN /\ total' = [total EXCEPT ![c] = r.value]
                      /\ offset' = [offset EXCEPT ![c] = 0]
                      /\ buf' = [buf EXCEPT ![c] = <<>>]
                      /\ Goto(c, "range_get")
                 ELSE /\ Return(c, r)
                      /\ UNCHANGED <<total, offset, buf>>
    /\ UNCHANGED <<call, http_range, resp>>

RangeGetSend(c) ==
    /\ pc[c] = "range_get"
    /\ Logged(c, <<Req("GET", call[c].url, {<<"range", RangeHeader(offset[c])>>}, None,
                       "get_as_data")>>)
    /\ Goto(c, "range_get_recv")
    /\ UNCHANGED <<call, http_range, total, offset, buf, resp>>

\* send() returns: the status decides whether the body is read
RangeGetRecv(c) ==
    /\ pc[c] = "range_get_recv"
    /\ \E h \in DataOutcomes :
          IF h.kind = "senderr"
          THEN /\ Logged(c, <<Resp(h)>>)
               /\ Return(c, TransportErr(h.cause))
               /\ UNCHANGED resp
          ELSE IF h.status \in {206, 200}
          THEN /\ resp' = [resp EXCEPT ![c] = Some(h)]
               /\ Goto(c, "range_get_body")
               /\ UNCHANGED log
          ELSE /\ Logged(c, <<Resp(h)>>)
               /\ Return(c, FormatErr("Error received {:?}", None, Some(h.status)))
               /\ UNCHANGED resp
    /\ UNCHANGED <<call, http_range, total, offset, buf>>

\* copy_to returns: the body of the response has arrived or has broken off
RangeGetBody(c) ==
    /\ pc[c] = "range_get_body"
    /\ \E b \in DataBodies :
          LET o == WithBody(resp[c].v, b)
          IN  IF ~o.body.some
              THEN /\ Logged(c, <<Resp(o)>>)
                   /\ Return(c, TransportErr("body"))
                   /\ UNCHANGED <<offset, buf>>
              ELSE IF o.status = 206
              THEN LET temp_buf == copy_to(<<>>, o.body.v)
                       newbuf == AppendChunk(buf[c], temp_buf)
                       newoff == NextOffset(offset[c])
                   IN  /\ Logged(c, <<Resp(o), Cb(ProgressValue(offset[c]))>>)
                       /\ buf' = [buf EXCEPT ![c] = newbuf]
                       /\ offset' = [offset EXCEPT ![c] = newoff]
                       /\ IF LoopExit(newoff, total[c])
                          THEN Return(c, Ok(newbuf))
                          ELSE Goto(c, "range_get")
              ELSE LET newbuf == copy_to(buf[c], o.body.v)
                   IN  /\ Logged(c, <<Resp(o)>>)
                       /\ buf' = [buf EXCEPT ![c] = newbuf]
                       /\ Return(c, Ok(newbuf))
                       /\ UNCHANGED offset
    /\ resp' = [resp EXCEPT ![c] = None]
    /\ UNCHANGED <<call, http_range, total>>

GetSend(c) ==
    /\ pc[c] = "get"
    /\ Logged(c, <<Req("GET", call[c].url, {}, None, "get_as_data")>>)
    /\ Goto(c, "get_recv")
    /\ UNCHANGED <<call, http_range, total, offset, buf, resp>>

GetRecv(c) ==
    /\ pc[c] = "get_recv"
    /\ \E h \in DataOutcomes :
          IF h.kind = "senderr"
          THEN /\ Logged(c, <<Resp(h)>>)
               /\ Return(c, TransportErr(h.cause))
               /\ UNCHANGED resp
          ELSE IF is_success(h.status)
          THEN /\ resp' = [resp EXCEPT ![c] = Some(h)]
               /\ Goto(c, "get_body")
               /\ UNCHANGED log
          ELSE /\ Logged(c, <<Resp(h)>>)
               /\ Return(c, FormatErr("Error while getting from url <{}>",
                                      Some(call[c].url), None))
               /\ UNCHANGED resp
    /\ UNCHANGED <<call, http_range, total, offset, buf>>

\* copy_to returns
GetBody(c) ==
    /\ pc[c] = "get_body"
    /\ \E b \in DataBodies :
          LET o == WithBody(resp[c].v, b)
          IN  IF ~o.body.some
              THEN /\ Logged(c, <<Resp(o)>>)
                   /\ Return(c, TransportErr("body"))
                   /\ UNCHANGED buf
              ELSE LET newbuf == copy_to(<<>>, o.body.v)
                       size == CopySize(o.body.v)
                   IN  /\ Logged(c, <<Resp(o), Cb(size)>>)
                       /\ buf' = [buf EXCEPT ![c] = newbuf]
                       /\ Return(c, Ok(newbuf))
    /\ resp' = [resp EXCEPT ![c] = None]
    /\ UNCHANGED <<call, http_range, total, offset>>

(***************************************************************************)
(* get_as_text, get_as_json and post_json.                                 *)
(***************************************************************************)
GetAsTextSend(c) ==
    /\ pc[c] = "get_as_text"
    /\ LET headers == construct_headers(call[c].auth)
       IN  IF headers.kind = "panic"
           THEN /\ Return(c, headers)
                /\ UNCHANGED log
           ELSE /\ Logged(c, <<Req("GET", call[c].url, headers.value, None, "get_as_text")>>)
                /\ Goto(c, "get_as_text_recv")
    /\ UNCHANGED <<call, http_range, total, offset, buf, resp>>

\* what get_as_text, or get_as_json on top of it, returns
TextResult(c, text) ==
    IF call[c].op = "get_as_json" THEN get_as_json(call[c].url, text) ELSE text

GetAsTextRecv(c) ==
    /\ pc[c] = "get_as_text_recv"
    /\ \E h \in TextOutcomes :
          IF h.kind = "resp" /\ is_success(h.status)
          THEN /\ resp' = [resp EXCEPT ![c] = Some(h)]
               /\ Goto(c, "get_as_text_body")
               /\ UNCHANGED log
          ELSE /\ Logged(c, <<Resp(h)>>)
               /\ Return(c, TextResult(c, get_as_text(call[c].url, h)))
               /\ UNCHANGED resp
    /\ UNCHANGED <<call, http_range, total, offset, buf>>

\* resp.text() returns
GetAsTextBody(c) ==
    /\ pc[c] = "get_as_text_body"
    /\ \E b \in TextBodies :
          LET o == WithBody(resp[c].v, b)
          IN  /\ Logged(c, <<Resp(o)>>)
              /\ Return(c, TextResult(c, get_as_text(call[c].url, o)))
    /\ resp' = [resp EXCEPT ![c] = None]
    /\ UNCHANGED <<call, http_range, total, offset, buf>>

PostJsonSend(c) ==
    /\ pc[c] = "post_json"
    /\ LET headers == construct_headers(call[c].auth)
       IN  IF headers.kind = "panic"
           THEN /\ Return(c, headers)
                /\ UNCHANGED log
           ELSE /\ Logged(c, <<Req("POST", call[c].url,
                                   HeaderInsert(headers.value, "content-type",
                                                "application/json"),
                                   Some(call[c].json), "post_json")>>)
                /\ Goto(c, "post_json_recv")
    /\ UNCHANGED <<call, http_range, total, offset, buf, resp>>

PostJsonRecv(c) ==
    /\ pc[c] = "post_json_recv"
    /\ \E o \in PostOutcomes :
          /\ Logged(c, <<Resp(o)>>)
          /\ Return(c, post_json(o))
    /\ UNCHANGED <<call, http_range, total, offset, buf, resp>>

Next ==
    \E c \in Calls :
        \/ HasHttpRangeSend(c)
        \/ HasHttpRangeRecv(c)
        \/ GetContentLengthSend(c)
        \/ GetContentLengthRecv(c)
        \/ RangeGetSend(c)
        \/ RangeGetRecv(c)
        \/ RangeGetBody(c)
        \/ GetSend(c)
        \/ GetRecv(c)
        \/ GetBody(c)
        \/ GetAsTextSend(c)
        \/ GetAsTextRecv(c)
        \/ GetAsTextBody(c)
        \/ PostJsonSend(c)
        \/ PostJsonRecv(c)

Spec == Init /\ [][Next]_vars

(***************************************************************************)
(* Reading the log of a call.                                              *)
(***************************************************************************)
HasRange(e) == e.ev = "req" /\ \E h \in e.headers : h[1] = "range"

IsGet(e) == e.ev = "req" /\ e.method = "GET"

IsHeadBy(e, by) == e.ev = "req" /\ e.method = "HEAD" /\ e.by = by

Positions(c) == [i \in 1 .. Len(log[c]) |-> i]

\* the requests of call c, in the order they were sent
Requests(c) == SelectSeq(log[c], LAMBDA e : e.ev = "req")

\* the ranged GETs of call c, in the order they were sent
RangedGets(c) == SelectSeq(log[c], HasRange)

\* the value of the Range header of a ranged GET
RangeOf(e) == (CHOOSE h \in e.headers : h[1] = "range")[2]

\* the outcomes of the ranged GETs of call c that have come back, in order
RangedOutcomes(c) ==
    LET at == SelectSeq(Positions(c),
                        LAMBDA i : i > 1 /\ log[c][i].ev = "resp" /\ HasRange(log[c][i - 1]))
    IN  [k \in 1 .. Len(at) |-> log[c][at[k]].outcome]

\* the values f was called with, in order
CbValues(c) ==
    LET cbs == SelectSeq(log[c], LAMBDA e : e.ev = "cb")
    IN  [k \in 1 .. Len(cbs) |-> cbs[k].value]

\* a response with this status whose body arrived in full
Full(o, status) == o.kind = "resp" /\ o.status = status /\ o.body.some

RECURSIVE Flatten(_)
Flatten(bodies) == IF bodies = <<>> THEN <<>> ELSE Head(bodies) \o Flatten(Tail(bodies))

RECURSIVE SumLen(_)
SumLen(bodies) == IF bodies = <<>> THEN 0 ELSE Len(Head(bodies)) + SumLen(Tail(bodies))

StrictlyIncreasing(s) == \A i \in 1 .. Len(s) - 1 : s[i] < s[i + 1]

\* get_as_data calls that took the ranged path and have had an answer to a ranged GET
OnRangedPath(c) ==
    /\ call[c].op = "get_as_data"
    /\ http_range[c] = Ok(TRUE)
    /\ RangedOutcomes(c) # <<>>

AllPartial(c) == \A k \in 1 .. Len(RangedOutcomes(c)) : Full(RangedOutcomes(c)[k], 206)

PartialBodies(c) == [k \in 1 .. Len(RangedOutcomes(c)) |-> RangedOutcomes(c)[k].body.v]

(***************************************************************************)
(* C1: on the ranged path of get_as_data, when every ranged GET came back  *)
(* 206, the call returns Ok with exactly the concatenation of the 206      *)
(* bodies in the order the requests were sent, its length is the sum of    *)
(* the lengths of the bodies, and the values passed to the progress        *)
(* callback are strictly increasing.                                       *)
(***************************************************************************)
C1_ConcatInOrder ==
    \A c \in Calls :
        (OnRangedPath(c) /\ AllPartial(c)) =>
            /\ StrictlyIncreasing(CbValues(c))
            /\ buf[c] = Flatten(PartialBodies(c))
            /\ pc[c] = "done" =>
                  /\ result[c] = Ok(Flatten(PartialBodies(c)))
                  /\ Len(result[c].value) = SumLen(PartialBodies(c))

\* three chunks, the first two with different one-byte bodies, have been
\* returned in order
C1_Witness ==
    \E c \in Calls :
        /\ OnRangedPath(c) /\ AllPartial(c) /\ pc[c] = "done"
        /\ Len(PartialBodies(c)) = 3
        /\ PartialBodies(c)[1] = <<1>> /\ PartialBodies(c)[2] = <<2>>
        /\ result[c].kind = "ok"
        /\ Len(CbValues(c)) = 3

(***************************************************************************)
(* C2: when a 200 arrives on the ranged path after one or more 206 chunks  *)
(* have been appended, the returned buffer is exactly the body of that 200 *)
(* response, without the bytes of the earlier chunks.                      *)
(* The code copies the 200 body into buf with copy_to, which appends, so   *)
(* the earlier chunks stay in front of it.                                 *)
(***************************************************************************)
LastRanged(c) == RangedOutcomes(c)[Len(RangedOutcomes(c))]

OkAfterPartial(c) ==
    /\ OnRangedPath(c)
    /\ Len(RangedOutcomes(c)) >= 2
    /\ \A k \in 1 .. Len(RangedOutcomes(c)) - 1 : Full(RangedOutcomes(c)[k], 206)
    /\ Full(LastRanged(c), 200)
    /\ pc[c] = "done"

C2_OkBodyReplacesChunks ==
    \A c \in Calls :
        OkAfterPartial(c) => result[c] = Ok(LastRanged(c).body.v)

(***************************************************************************)
(* C3: when the range probe reports range support and the first ranged GET *)
(* returns 200, the call returns exactly that response's body, sends no    *)
(* further request of any kind, and terminates successfully.               *)
(***************************************************************************)
C3_FirstOkReturnsBody ==
    \A c \in Calls :
        (OnRangedPath(c) /\ Full(RangedOutcomes(c)[1], 200)) =>
            /\ pc[c] = "done"
            /\ result[c] = Ok(RangedOutcomes(c)[1].body.v)
            /\ Len(RangedGets(c)) = 1
            /\ Len(Requests(c)) = 3
            /\ log[c][Len(log[c])] = Resp(RangedOutcomes(c)[1])

\* a first ranged GET answered 200 with a non-empty body, when more than one
\* chunk would have been needed
C3_Witness ==
    \E c \in Calls :
        /\ OnRangedPath(c) /\ Full(RangedOutcomes(c)[1], 200)
        /\ RangedOutcomes(c)[1].body.v = <<2>>
        /\ total[c] > CHUNK
        /\ result[c].kind = "ok"

(***************************************************************************)
(* C4: when the range probe reports no range support, get_as_data sends    *)
(* exactly one GET, without a Range header, and never calls                *)
(* get_content_length; when that GET returns a 2xx status the progress     *)
(* callback is invoked exactly once, with the number of body bytes         *)
(* received, and the body is returned; when it returns a non-2xx status    *)
(* the callback is never invoked and an error is returned.                 *)
(***************************************************************************)
\* the statuses of the 2xx class
Is2xx(status) == status \in 200 .. 299

OnUnrangedPath(c) == call[c].op = "get_as_data" /\ http_range[c] = Ok(FALSE)

Gets(c) == SelectSeq(log[c], IsGet)

C4_UnrangedPath ==
    \A c \in Calls :
        OnUnrangedPath(c) =>
            /\ \A i \in 1 .. Len(log[c]) : ~IsHeadBy(log[c][i], "get_content_length")
            /\ Len(Gets(c)) <= 1
            /\ \A k \in 1 .. Len(Gets(c)) : Gets(c)[k].headers = {}
            /\ pc[c] # "done" => CbValues(c) = <<>>
            /\ pc[c] = "done" =>
                  /\ Len(Gets(c)) = 1
                  /\ Len(Requests(c)) = 2
                  /\ LET o == log[c][4].outcome
                     IN  /\ (o.kind = "resp" /\ Is2xx(o.status)) =>
                               /\ "body" \in DOMAIN o
                               /\ o.body.some =>
                                     /\ CbValues(c) = <<Len(o.body.v)>>
                                     /\ result[c] = Ok(o.body.v)
                         /\ (o.kind = "resp" /\ ~Is2xx(o.status)) =>
                               /\ CbValues(c) = <<>>
                               /\ result[c].kind = "err"

\* the unranged GET came back 204 with a one-byte body, reported once
C4_Witness ==
    \E c \in Calls :
        /\ OnUnrangedPath(c) /\ pc[c] = "done"
        /\ log[c][4].outcome.kind = "resp" /\ log[c][4].outcome.status = 204
        /\ result[c] = Ok(<<1>>)
        /\ CbValues(c) = <<1>>

(***************************************************************************)
(* C5: on the ranged path with content length total and every ranged GET   *)
(* answered 206, the k-th request (k = 0, 1, ...) carries                  *)
(* Range: bytes=k*CHUNK-((k+1)*CHUNK-1), and the loop exits exactly when   *)
(* the advanced offset is strictly greater than total, so exactly          *)
(* floor(total/CHUNK)+1 ranged GETs are sent: 3 for total = 5,000,000, and *)
(* one extra request starting at offset = total when total is an exact     *)
(* multiple of CHUNK, total = 0 included.                                  *)
(***************************************************************************)
RangesSent(c) == [k \in 1 .. Len(RangedGets(c)) |-> RangeOf(RangedGets(c)[k])]

C5_RangesAndCount ==
    \A c \in Calls :
        (OnRangedPath(c) /\ AllPartial(c)) =>
            LET n == Len(RangedOutcomes(c))
            IN  /\ \A k \in 1 .. Len(RangesSent(c)) :
                      RangesSent(c)[k] =
                          "bytes=" \o ToDec((k - 1) * CHUNK) \o "-" \o ToDec(k * CHUNK - 1)
                /\ offset[c] = n * CHUNK
                /\ pc[c] = "done" <=> n * CHUNK > total[c]
                /\ pc[c] = "done" =>
                      /\ Len(RangedGets(c)) = (total[c] \div CHUNK) + 1
                      /\ total[c] = 5000000 =>
                            RangesSent(c) = <<"bytes=0-2097151", "bytes=2097152-4194303",
                                              "bytes=4194304-6291455">>
                      /\ total[c] = 0 => RangesSent(c) = <<"bytes=0-2097151">>
                      /\ total[c] % CHUNK = 0 =>
                            RangesSent(c)[Len(RangesSent(c))] =
                                "bytes=" \o ToDec(total[c]) \o "-"
                                    \o ToDec(total[c] + CHUNK - 1)

\* total is exactly one CHUNK: a second request, starting at offset = total,
\* was sent and answered before the loop ended
C5_Witness ==
    \E c \in Calls :
        /\ OnRangedPath(c) /\ AllPartial(c) /\ pc[c] = "done"
        /\ total[c] = CHUNK
        /\ RangesSent(c) = <<"bytes=0-2097151", "bytes=2097152-4194303">>

(***************************************************************************)
(* C6: every failure aborts get_as_data with no retry: once a request ends *)
(* in a transport error, or a ranged GET returns a status other than 206   *)
(* or 200 (any other 2xx included), or the unranged GET returns a non-2xx  *)
(* status, the call returns an error, sends no further request, never      *)
(* requests again a range it already requested, and returns none of the    *)
(* bytes accumulated so far.                                               *)
(***************************************************************************)
\* log[c][i] is the outcome of a request of get_as_data that failed
FailureAt(c, i) ==
    /\ i > 1 /\ i <= Len(log[c])
    /\ log[c][i].ev = "resp"
    /\ LET o == log[c][i].outcome
           q == log[c][i - 1]
       IN  \/ o.kind = "senderr"
           \/ /\ HasRange(q)
              /\ \/ o.status \notin {200, 206}
                 \/ ~o.body.some
           \/ /\ IsGet(q) /\ ~HasRange(q)
              /\ \/ ~Is2xx(o.status)
                 \/ ~o.body.some

C6_FailureAborts ==
    \A c \in Calls :
        call[c].op = "get_as_data" =>
            /\ \A i \in 1 .. Len(log[c]) :
                  FailureAt(c, i) =>
                      /\ i = Len(log[c])
                      /\ pc[c] = "done"
                      /\ result[c].kind = "err"
                      /\ "value" \notin DOMAIN result[c]
            /\ \A j, k \in 1 .. Len(RangesSent(c)) :
                  j # k => RangesSent(c)[j] # RangesSent(c)[k]

\* the third ranged GET came back 204 after two chunks had been appended
C6_Witness ==
    \E c \in Calls :
        /\ OnRangedPath(c)
        /\ Len(RangedOutcomes(c)) = 3
        /\ FailureAt(c, Len(log[c]))
        /\ LastRanged(c).kind = "resp"
        /\ LastRanged(c).status = 204
        /\ Len(buf[c]) = 2
        /\ result[c].kind = "err"

(***************************************************************************)
(* C7: get_as_data sends the range-probe HEAD first; on the ranged path it *)
(* sends the content-length HEAD strictly before any GET; when the range   *)
(* probe fails, or the content-length probe fails (transport error,        *)
(* non-2xx status or missing content-length), the error is returned, no    *)
(* GET is ever sent and the progress callback is never invoked.            *)
(***************************************************************************)
\* the content-length HEAD was sent at position j and came back with a length
LengthKnownAt(c, j) ==
    /\ IsHeadBy(log[c][j], "get_content_length")
    /\ j < Len(log[c])
    /\ log[c][j + 1].outcome.kind = "resp"
    /\ Is2xx(log[c][j + 1].outcome.status)
    /\ log[c][j + 1].outcome.content_length.some

\* the outcome at position i is a failed probe
ProbeFailedAt(c, i) ==
    /\ i > 1 /\ i <= Len(log[c])
    /\ log[c][i].ev = "resp"
    /\ LET o == log[c][i].outcome
       IN  \/ IsHeadBy(log[c][i - 1], "has_http_range") /\ o.kind = "senderr"
           \/ /\ IsHeadBy(log[c][i - 1], "get_content_length")
              /\ \/ o.kind = "senderr"
                 \/ ~Is2xx(o.status)
                 \/ ~o.content_length.some

C7_ProbesFirst ==
    \A c \in Calls :
        call[c].op = "get_as_data" =>
            /\ log[c] # <<>> => IsHeadBy(log[c][1], "has_http_range")
            /\ \A i \in 1 .. Len(log[c]) :
                  (IsGet(log[c][i]) /\ http_range[c] = Ok(TRUE)) =>
                      \E j \in 1 .. i - 1 : LengthKnownAt(c, j)
            /\ \A i \in 1 .. Len(log[c]) :
                  ProbeFailedAt(c, i) =>
                      /\ pc[c] = "done"
                      /\ result[c].kind = "err"
                      /\ Gets(c) = <<>>
                      /\ CbValues(c) = <<>>
                      /\ i = Len(log[c])

\* the content-length HEAD came back 2xx without a content-length
C7_Witness ==
    \E c \in Calls :
        /\ call[c].op = "get_as_data"
        /\ http_range[c] = Ok(TRUE)
        /\ Len(log[c]) = 4
        /\ ProbeFailedAt(c, 4)
        /\ log[c][4].outcome.kind = "resp"
        /\ Is2xx(log[c][4].outcome.status)
        /\ result[c].kind = "err"

(***************************************************************************)
(* C8: what an operation returns when a request of it comes back with a    *)
(* non-success (non-2xx) status.                                           *)
(***************************************************************************)
\* log[c][i] is a response with a non-2xx status to a request made by `by`
\* (ranged tells the two GETs of get_as_data apart)
NonSuccessAt(c, i, by, ranged) ==
    /\ i > 1 /\ i <= Len(log[c])
    /\ log[c][i].ev = "resp"
    /\ log[c][i].outcome.kind = "resp"
    /\ ~Is2xx(log[c][i].outcome.status)
    /\ log[c][i - 1].by = by
    /\ HasRange(log[c][i - 1]) = ranged

\* what the function that made the request before log[c][i] returned
ReturnedAt(c, i) ==
    IF log[c][i - 1].by = "has_http_range" THEN http_range[c] ELSE result[c]

CarriesUrlAndStatus(c, i) ==
    LET r == ReturnedAt(c, i)
    IN  /\ r.kind = "err"
        /\ r.url = Some(call[c].url)
        /\ r.status = Some(log[c][i].outcome.status)

\* C8 as stated: every operation other than post_json (get_as_text,
\* get_as_json, get_content_length, has_http_range, and the ranged and the
\* unranged path of get_as_data) that receives a non-success status returns
\* a status error that carries both the URL and the received status code.
C8_AllCarryUrlAndStatus ==
    \A c \in Calls :
        \A i \in 1 .. Len(log[c]) :
            \A by \in {"get_as_text", "get_content_length", "has_http_range", "get_as_data"} :
                \A ranged \in BOOLEAN :
                    NonSuccessAt(c, i, by, ranged) => CarriesUrlAndStatus(c, i)

\* C8 as amended: on a non-success status get_as_text, get_as_json and
\* get_content_length return an error that carries the URL and the status
\* code; the ranged path of get_as_data returns an error that carries the
\* status code and no URL; the unranged path returns an error that carries
\* the URL and no status code; has_http_range returns no error, but whether
\* the response has an Accept-Ranges header.
C8_StatusErrors ==
    \A c \in Calls :
        \A i \in 1 .. Len(log[c]) :
            /\ NonSuccessAt(c, i, "get_as_text", FALSE) => CarriesUrlAndStatus(c, i)
            /\ NonSuccessAt(c, i, "get_content_length", FALSE) => CarriesUrlAndStatus(c, i)
            /\ NonSuccessAt(c, i, "get_as_data", TRUE) =>
                  /\ result[c].kind = "err"
                  /\ result[c].url = None
                  /\ result[c].status = Some(log[c][i].outcome.status)
            /\ NonSuccessAt(c, i, "get_as_data", FALSE) =>
                  /\ result[c].kind = "err"
                  /\ result[c].url = Some(call[c].url)
                  /\ result[c].status = None
            /\ NonSuccessAt(c, i, "has_http_range", FALSE) =>
                  http_range[c] = Ok(log[c][i].outcome.accept_ranges)

\* the range probe came back 404 with Accept-Ranges and was taken as range
\* support; later a ranged GET came back 404
C8_Witness ==
    \E c \in Calls :
        /\ NonSuccessAt(c, 2, "has_http_range", FALSE)
        /\ http_range[c] = Ok(TRUE)
        /\ NonSuccessAt(c, Len(log[c]), "get_as_data", TRUE)
        /\ result[c].kind = "err"
        /\ result[c].status = Some(404)

(***************************************************************************)
(* C9: get_content_length returns Ok(n) only when the HEAD response has a  *)
(* 2xx status and carries a content-length of n; it returns an error when  *)
(* the status is non-2xx, and an error (never 0 or another default) when   *)
(* the status is 2xx and the content-length is absent; it sends exactly    *)
(* one HEAD and no GET.                                                    *)
(***************************************************************************)
C9_ContentLength ==
    \A c \in Calls :
        call[c].op = "get_content_length" =>
            /\ Gets(c) = <<>>
            /\ Len(Requests(c)) <= 1
            /\ pc[c] = "done" =>
                  /\ Len(log[c]) = 2
                  /\ IsHeadBy(log[c][1], "get_content_length")
                  /\ LET o == log[c][2].outcome
                     IN  /\ result[c].kind \in {"ok", "err"}
                         /\ result[c].kind = "ok" <=>
                               /\ o.kind = "resp"
                               /\ Is2xx(o.status)
                               /\ o.content_length.some
                         /\ result[c].kind = "ok" =>
                               o.content_length = Some(result[c].value)

\* a 2xx HEAD response without a content-length gave an error
C9_Witness ==
    \E c \in Calls :
        /\ call[c].op = "get_content_length"
        /\ pc[c] = "done"
        /\ log[c][2].outcome.kind = "resp"
        /\ Is2xx(log[c][2].outcome.status)
        /\ ~log[c][2].outcome.content_length.some
        /\ result[c].kind = "err"

(***************************************************************************)
(* C10: when get_as_text, get_as_json or post_json is invoked with an Auth *)
(* whose access token is absent, the operation aborts with a panic while   *)
(* the headers are built and no request is ever sent; every request such   *)
(* an operation sends carries the Authorization header built from a        *)
(* present token.                                                          *)
(***************************************************************************)
Authenticated(c) == call[c].op \in {"get_as_text", "get_as_json", "post_json"}

\* the Authorization value for the tokens of the model, written out
BearerOf(token) ==
    CASE token = <<116, 107, 65>> -> "Bearer tkA"
      [] token = <<116, 107, 66>> -> "Bearer tkB"
      [] token = <<116, 9, 65>> -> "Bearer t\tA"
      [] OTHER -> "invalid"

C10_NoTokenNoRequest ==
    \A c \in Calls :
        Authenticated(c) =>
            /\ ~call[c].auth.access_token.some =>
                  /\ log[c] = <<>>
                  /\ pc[c] = "done" => result[c].kind = "panic"
                  /\ pc[c] \in {Entry(call[c]), "done"}
            /\ \A i \in 1 .. Len(log[c]) :
                  log[c][i].ev = "req" =>
                      /\ call[c].auth.access_token.some
                      /\ <<"authorization", BearerOf(call[c].auth.access_token.v)>>
                            \in log[c][i].headers

\* a call without a token has run into the panic and sent nothing
C10_Witness ==
    \E c \in Calls :
        /\ Authenticated(c)
        /\ ~call[c].auth.access_token.some
        /\ pc[c] = "done"
        /\ result[c].kind = "panic"
        /\ log[c] = <<>>

(***************************************************************************)
(* C11: post_json sends exactly one POST and returns success for every     *)
(* response status the server can return (2xx, 4xx, 5xx alike); it returns *)
(* an error only when the transport fails before a response is received.   *)
(* (A call whose headers cannot be built panics before it sends: C10.)     *)
(***************************************************************************)
C11_PostJsonIgnoresStatus ==
    \A c \in Calls :
        call[c].op = "post_json" =>
            /\ Len(Requests(c)) <= 1
            /\ \A k \in 1 .. Len(Requests(c)) : Requests(c)[k].method = "POST"
            /\ (pc[c] = "done" /\ result[c].kind # "panic") =>
                  /\ Len(log[c]) = 2
                  /\ Len(Requests(c)) = 1
                  /\ log[c][2].ev = "resp"
                  /\ log[c][2].outcome.kind = "resp" <=> result[c] = Ok(<<>>)
                  /\ log[c][2].outcome.kind = "senderr" <=> result[c].kind = "err"
            /\ (pc[c] = "done" /\ result[c].kind = "panic") =>
                  construct_headers(call[c].auth).kind = "panic"

\* the POST came back 404 and post_json returned Ok(())
C11_Witness ==
    \E c \in Calls :
        /\ call[c].op = "post_json"
        /\ pc[c] = "done"
        /\ Len(log[c]) = 2
        /\ log[c][2].outcome.kind = "resp"
        /\ log[c][2].outcome.status = 404
        /\ result[c] = Ok(<<>>)

(***************************************************************************)
(* C12: get_as_json returns a value only when get_as_text succeeded and    *)
(* its whole text parsed as JSON; when the text fetch fails the same error *)
(* is returned and nothing is parsed; when a 2xx body is malformed JSON    *)
(* the call fails with a parse error naming the URL and never returns a    *)
(* partially parsed value.                                                 *)
(***************************************************************************)
Spaces(k) == [i \in 1 .. k |-> " "]

\* the JSON values of nesting depth at most d that fit in MaxText
\* characters, each with its text, generated from the grammar
RECURSIVE JsonValues(_)
JsonValues(d) ==
    IF d = 0
    THEN {[text |-> <<"0">>, value |-> JsonNumber(0)]}
         \cup {[text |-> <<"[">> \o Spaces(k) \o <<"]">>, value |-> JsonArray(<<>>)] :
                 k \in 0 .. MaxText}
    ELSE LET inner == JsonValues(d - 1)
         IN  inner
             \cup {[text |-> <<"[">> \o Spaces(a) \o v.text \o Spaces(b) \o <<"]">>,
                    value |-> JsonArray(<<v.value>>)] :
                     a \in 0 .. MaxText, b \in 0 .. MaxText,
                     v \in {w \in inner : Len(w.text) + 2 <= MaxText}}

\* the JSON documents of at most MaxText characters
JsonDocs ==
    {d \in {[text |-> Spaces(a) \o v.text \o Spaces(b), value |-> v.value] :
              a \in 0 .. MaxText, b \in 0 .. MaxText, v \in JsonValues(MaxText \div 2)} :
        Len(d.text) <= MaxText}

C12_JsonWholeTextOrError ==
    \A c \in Calls :
        (call[c].op = "get_as_json" /\ pc[c] = "done" /\ result[c].kind # "panic") =>
            LET o == log[c][2].outcome
                fetched == get_as_text(call[c].url, o)
            IN  /\ result[c].kind \in {"ok", "err"}
                /\ fetched.kind = "err" => result[c] = fetched
                /\ result[c].kind = "ok" =>
                      /\ o.kind = "resp" /\ Is2xx(o.status) /\ o.body.some
                      /\ \E d \in JsonDocs :
                            d.text = o.body.v /\ d.value = result[c].value
                /\ (o.kind = "resp" /\ Is2xx(o.status) /\ o.body.some
                      /\ ~\E d \in JsonDocs : d.text = o.body.v) =>
                      /\ result[c].kind = "err"
                      /\ result[c].msg = "Error parsing json from url <{}>: {:?}"
                      /\ result[c].url = Some(call[c].url)

\* a 200 body that starts with a JSON value and goes on was refused
C12_Witness ==
    \E c \in Calls :
        /\ call[c].op = "get_as_json" /\ pc[c] = "done"
        /\ Len(log[c]) = 2
        /\ log[c][2].outcome.kind = "resp"
        /\ log[c][2].outcome.status = 200
        /\ log[c][2].outcome.body = Some(<<"0", "]">>)
        /\ result[c].kind = "err"
        /\ result[c].url = Some(call[c].url)

(***************************************************************************)
(* C13: has_http_range sends exactly one HEAD; every transport failure     *)
(* gives the same generic "could not check range" error, with no detail of *)
(* the transport error in it; otherwise it returns true exactly when the   *)
(* response has an Accept-Ranges header, whatever the status (a non-2xx    *)
(* response is never turned into an error by the probe).                   *)
(***************************************************************************)
RangeProbes(c) == SelectSeq(log[c], LAMBDA e : IsHeadBy(e, "has_http_range"))

C13_RangeProbe ==
    \A c \in Calls :
        call[c].op = "get_as_data" =>
            /\ Len(RangeProbes(c)) <= 1
            /\ http_range[c] # NoResult =>
                  /\ Len(RangeProbes(c)) = 1
                  /\ IsHeadBy(log[c][1], "has_http_range")
                  /\ LET o == log[c][2].outcome
                     IN  /\ o.kind = "senderr" =>
                               /\ http_range[c].kind = "err"
                               /\ http_range[c].msg = "Could not check http range"
                               /\ http_range[c].class = "format_err"
                               /\ DOMAIN http_range[c] =
                                     {"kind", "class", "msg", "url", "status"}
                               /\ http_range[c].url = None
                               /\ http_range[c].status = None
                               /\ result[c] = http_range[c]
                         /\ o.kind = "resp" =>
                               \A b \in BOOLEAN :
                                   o.accept_ranges = b <=> http_range[c] = Ok(b)

\* send() of the probe timed out and the generic error came back
C13_Witness ==
    \E c \in Calls :
        /\ call[c].op = "get_as_data"
        /\ Len(log[c]) = 2
        /\ log[c][2].outcome = [kind |-> "senderr", cause |-> "timeout"]
        /\ http_range[c].kind = "err"
        /\ result[c] = http_range[c]
        /\ pc[c] = "done"

(***************************************************************************)
(* C14: the headers construct_headers builds for an Auth with a present    *)
(* token.                                                                  *)
(***************************************************************************)
\* the headers of the request of call c that construct_headers built (the
\* content-type is added by RequestBuilder::json)
BuiltHeaders(c) == {h \in Requests(c)[1].headers : h[1] # "content-type"}

\* the call has run construct_headers
PastHeaders(c) == Authenticated(c) /\ pc[c] # Entry(call[c])

ThreeHeaders(c) ==
    /\ Requests(c) # <<>>
    /\ Cardinality(BuiltHeaders(c)) = 3
    /\ BuiltHeaders(c) =
          {<<"authorization", BearerOf(call[c].auth.access_token.v)>>,
           <<"x-udemy-authorization", BearerOf(call[c].auth.access_token.v)>>,
           <<"user-agent",
             "Mozilla/5.0 (Windows NT 6.1; WOW64) AppleWebKit/537.21 (KHTML, like Gecko) Mwendo/1.1.5 Safari/537.21">>}

\* every byte of the token is a tab or a printable ASCII character
LegalToken(token) == \A i \in 1 .. Len(token) : token[i] \in (32 .. 126) \cup {9}

\* C14 as stated: for any Auth with a present token, construct_headers
\* produces exactly three headers: Authorization and x-udemy-authorization,
\* both `Bearer <token>`, and User-Agent, the fixed constant; the same Auth
\* always gives the same header set.
C14_AnyPresentToken ==
    \A c \in Calls :
        (PastHeaders(c) /\ call[c].auth.access_token.some) => ThreeHeaders(c)

\* C14 as amended: for any Auth with a present token that is a legal header
\* value, construct_headers produces exactly these three headers, and the
\* header set is determined by the token alone; with a present token that
\* holds a byte no header value may hold (a control character other than
\* tab, or DEL) it panics and produces no headers.
C14_LegalTokenThreeHeaders ==
    \A c \in Calls :
        (PastHeaders(c) /\ call[c].auth.access_token.some) =>
            IF LegalToken(call[c].auth.access_token.v)
            THEN ThreeHeaders(c)
            ELSE /\ log[c] = <<>>
                 /\ result[c].kind = "panic"

\* a request went out with the three headers of token tkA
C14_Witness ==
    \E c \in Calls :
        /\ PastHeaders(c)
        /\ call[c].auth.access_token = Some(<<116, 107, 65>>)
        /\ Requests(c) # <<>>
        /\ <<"x-udemy-authorization", "Bearer tkA">> \in BuiltHeaders(c)
        /\ Cardinality(BuiltHeaders(c)) = 3

(***************************************************************************)
(* C15: in get_as_data the progress callback is invoked exactly once after *)
(* every response body that is added to the result (each 206 chunk, a 200  *)
(* received on the ranged path, and the 2xx body of the unranged path),    *)
(* before the next request is sent or the call returns.                    *)
(* The 200 branch of the loop (lines 94-97) copies the body and breaks     *)
(* without calling f.                                                      *)
(***************************************************************************)
\* log[c][i] is a response whose body get_as_data added to its result
BodyAddedAt(c, i) ==
    /\ i > 1 /\ i <= Len(log[c])
    /\ log[c][i].ev = "resp"
    /\ log[c][i].outcome.kind = "resp"
    /\ IsGet(log[c][i - 1])
    /\ IF HasRange(log[c][i - 1])
       THEN log[c][i].outcome.status \in {200, 206}
       ELSE Is2xx(log[c][i].outcome.status)
    /\ log[c][i].outcome.body.some

C15_CallbackAfterEveryBody ==
    \A c \in Calls :
        call[c].op = "get_as_data" =>
            /\ \A i \in 1 .. Len(log[c]) :
                  BodyAddedAt(c, i) =>
                      /\ i < Len(log[c])
                      /\ log[c][i + 1].ev = "cb"
                      /\ i + 2 <= Len(log[c]) => log[c][i + 2].ev = "req"
            /\ \A i \in 1 .. Len(log[c]) :
                  log[c][i].ev = "cb" => BodyAddedAt(c, i - 1)

(***************************************************************************)
(* C16: on the ranged path the i-th invocation of the progress callback    *)
(* (i = 1, 2, ...) passes exactly i * CHUNK, whatever the number of bytes  *)
(* the 206 responses held; so when the loop ends through offset > total    *)
(* the last value reported is strictly greater than total, and it may      *)
(* differ from the length of the returned buffer.                          *)
(***************************************************************************)
C16_ProgressIsOffset ==
    \A c \in Calls :
        (call[c].op = "get_as_data" /\ http_range[c] = Ok(TRUE)) =>
            /\ \A i \in 1 .. Len(CbValues(c)) : CbValues(c)[i] = i * 2097152
            /\ (pc[c] = "done" /\ OnRangedPath(c) /\ AllPartial(c)) =>
                  /\ CbValues(c) # <<>>
                  /\ CbValues(c)[Len(CbValues(c))] > total[c]
                  /\ Len(CbValues(c)) = Len(RangedOutcomes(c))

\* total = 1 and the only chunk held one byte: the callback got 2097152
C16_Witness ==
    \E c \in Calls :
        /\ OnRangedPath(c) /\ AllPartial(c) /\ pc[c] = "done"
        /\ total[c] = 1
        /\ result[c] = Ok(<<2>>)
        /\ CbValues(c) = <<2097152>>
        /\ CbValues(c)[1] # Len(result[c].value)

(***************************************************************************)
(* C17: within one get_as_data call at most one request is outstanding at  *)
(* any time: a ranged GET is sent only after the body of the previous      *)
(* response has been appended and its progress callback has returned, and  *)
(* consecutive ranges are adjacent (the next one starts at the end of the  *)
(* previous one + 1), so the ranges requested never overlap and never      *)
(* leave a gap.                                                            *)
(***************************************************************************)
\* the Range values with first and last byte around the chunk borders
RangeTable ==
    {[text |-> "bytes=" \o ToDec(a) \o "-" \o ToDec(b), first |-> a, last |-> b] :
        a \in {j * 2097152 + d : j \in 0 .. MaxChunks + 3, d \in {0, 1}},
        b \in {j * 2097152 + d : j \in 1 .. MaxChunks + 4, d \in {-1, 0}}}

Responses(c) == SelectSeq(log[c], LAMBDA e : e.ev = "resp")

C17_OneAtATimeAdjacent ==
    \A c \in Calls :
        call[c].op = "get_as_data" =>
            /\ Len(Requests(c)) - Len(Responses(c)) \in {0, 1}
            /\ Len(Requests(c)) - Len(Responses(c)) = 1 <=>
                  (log[c] # <<>> /\ log[c][Len(log[c])].ev = "req")
            /\ \A i \in 2 .. Len(log[c]) :
                  log[c][i].ev = "req" => log[c][i - 1].ev # "req"
            /\ \A i \in 1 .. Len(log[c]) :
                  (HasRange(log[c][i]) /\ \E j \in 1 .. i - 1 : HasRange(log[c][j])) =>
                      /\ log[c][i - 1].ev = "cb"
                      /\ BodyAddedAt(c, i - 2)
                      /\ HasRange(log[c][i - 3])
            /\ (log[c] # <<>> /\ HasRange(log[c][Len(log[c])])) =>
                  /\ AllPartial(c)
                  /\ buf[c] = Flatten(PartialBodies(c))
                  /\ Len(CbValues(c)) = Len(RangedOutcomes(c))
            /\ \A k \in 1 .. Len(RangesSent(c)) - 1 :
                  \E r \in RangeTable :
                      /\ r.text = RangesSent(c)[k]
                      /\ r.first <= r.last
                      /\ \E n \in RangeTable :
                            /\ n.first = r.last + 1
                            /\ n.text = RangesSent(c)[k + 1]

\* two adjacent ranges have been requested, the second still unanswered
C17_Witness ==
    \E c \in Calls :
        /\ call[c].op = "get_as_data"
        /\ RangesSent(c) = <<"bytes=0-2097151", "bytes=2097152-4194303">>
        /\ log[c][Len(log[c])].ev = "req"
        /\ log[c][Len(log[c]) - 1].ev = "cb"
        /\ buf[c] = <<1>>

(***************************************************************************)
(* Two get_as_data calls on one client, interleaved step by step.          *)
(***************************************************************************)
\* the server of the two-call runs: fewer kinds of answer, so that every
\* interleaving of the two calls can be explored
TwoCallRangeProbes ==
    {o \in RangeProbeOutcomes :
        IF o.kind = "senderr" THEN o.cause = "connect" ELSE o.status = 200}

TwoCallLengthProbes ==
    {o \in LengthProbeOutcomes :
        IF o.kind = "senderr" THEN o.cause = "connect"
        ELSE /\ o.status \in {200, 404}
             /\ o.content_length \in {Some(0), Some(MaxChunks * CHUNK)}}

\* a GET is answered in full (or, with a status whose body the call does not
\* read, by the status alone)
TwoCallData ==
    {o \in DataOutcomes : o.kind = "senderr" => o.cause = "connect"}
    \cup {WithBody(h, Some(b)) : h \in DataOutcomes \ SendErrors, b \in {<<1>>, <<2>>}}

\* every answer call c has received is one the two-call server gives
TwoCallServer(c) ==
    \A i \in 2 .. Len(log[c]) :
        log[c][i].ev = "resp" =>
            log[c][i].outcome \in
                CASE log[c][i - 1].by = "has_http_range" -> TwoCallRangeProbes
                  [] log[c][i - 1].by = "get_content_length" -> TwoCallLengthProbes
                  [] OTHER -> TwoCallData

InitTwo ==
    /\ InitCalls(Calls)
    /\ \A c \in Calls : call[c].op = "get_as_data"

NextTwo ==
    \E c \in Calls :
        \/ HasHttpRangeSend(c)
        \/ HasHttpRangeRecv(c) /\ TwoCallServer(c)'
        \/ GetContentLengthSend(c)
        \/ GetContentLengthRecv(c) /\ TwoCallServer(c)'
        \/ RangeGetSend(c)
        \/ RangeGetRecv(c) /\ TwoCallServer(c)'
        \/ RangeGetBody(c) /\ TwoCallServer(c)'
        \/ GetSend(c)
        \/ GetRecv(c) /\ TwoCallServer(c)'
        \/ GetBody(c) /\ TwoCallServer(c)'

SpecTwo == InitTwo /\ [][NextTwo]_vars

\* One get_as_data call run alone, as a function of its arguments and of
\* the answers it receives: its locals and its trace.
SoloStart ==
    [pc |-> "has_http_range", http_range |-> NoResult, total |-> 0, offset |-> 0,
     buf |-> <<>>, resp |-> None, log |-> <<>>, result |-> NoResult]

SoloReturn(s, r, events) ==
    [s EXCEPT !.log = @ \o events, !.result = r, !.pc = "done"]

\* the call sends its next request
SoloSend(s, args) ==
    CASE s.pc = "has_http_range" ->
            [s EXCEPT !.log = @ \o <<Req("HEAD", args.url, {}, None, "has_http_range")>>,
                      !.pc = "has_http_range_recv"]
      [] s.pc = "get_content_length" ->
            [s EXCEPT !.log = @ \o <<Req("HEAD", args.url, {}, None, "get_content_length")>>,
                      !.pc = "get_content_length_recv"]
      [] s.pc = "range_get" ->
            [s EXCEPT !.log = @ \o <<Req("GET", args.url,
                                         {<<"range", RangeHeader(s.offset)>>}, None,
                                         "get_as_data")>>,
                      !.pc = "range_get_recv"]
      [] s.pc = "get" ->
            [s EXCEPT !.log = @ \o <<Req("GET", args.url, {}, None, "get_as_data")>>,
                      !.pc = "get_recv"]
      [] OTHER -> s

\* send() of a GET returns the response h, whose body the call goes on to read
SoloHead(s, h) ==
    [s EXCEPT !.resp = Some(h),
              !.pc = IF s.pc = "range_get_recv" THEN "range_get_body" ELSE "get_body"]

\* the call is through with the answer o to the request it has sent
SoloRecv(s, args, o) ==
    CASE s.pc = "has_http_range_recv" ->
            LET r == has_http_range(o)
            IN  IF r.kind # "ok"
                THEN [SoloReturn(s, r, <<Resp(o)>>) EXCEPT !.http_range = r]
                ELSE [s EXCEPT !.log = @ \o <<Resp(o)>>, !.http_range = r,
                               !.pc = IF r.value THEN "get_content_length" ELSE "get"]
      [] s.pc = "get_content_length_recv" ->
            LET r == get_content_length(args.url, o)
            IN  IF r.kind # "ok"
                THEN SoloReturn(s, r, <<Resp(o)>>)
                ELSE [s EXCEPT !.log = @ \o <<Resp(o)>>, !.total = r.value,
                               !.offset = 0, !.buf = <<>>, !.pc = "range_get"]
      [] s.pc = "range_get_recv" ->
            IF o.kind = "senderr" THEN SoloReturn(s, TransportErr(o.cause), <<Resp(o)>>)
            ELSE IF o.status \in {200, 206} /\ ~o.body.some
            THEN SoloReturn(s, TransportErr("body"), <<Resp(o)>>)
            ELSE IF o.status = 206
            THEN LET newbuf == AppendChunk(s.buf, copy_to(<<>>, o.body.v))
                     newoff == NextOffset(s.offset)
                     t == [s EXCEPT !.log = @ \o <<Resp(o), Cb(ProgressValue(s.offset))>>,
                                    !.buf = newbuf, !.offset = newoff, !.pc = "range_get"]
                 IN  IF LoopExit(newoff, s.total) THEN SoloReturn(t, Ok(newbuf), <<>>) ELSE t
            ELSE IF o.status = 200
            THEN LET newbuf == copy_to(s.buf, o.body.v)
                 IN  SoloReturn([s EXCEPT !.buf = newbuf], Ok(newbuf), <<Resp(o)>>)
            ELSE SoloReturn(s, FormatErr("Error received {:?}", None, Some(o.status)),
                            <<Resp(o)>>)
      [] s.pc = "get_recv" ->
            IF o.kind = "senderr" THEN SoloReturn(s, TransportErr(o.cause), <<Resp(o)>>)
            ELSE IF ~is_success(o.status)
            THEN SoloReturn(s, FormatErr("Error while getting from url <{}>",
                                         Some(args.url), None), <<Resp(o)>>)
            ELSE IF ~o.body.some THEN SoloReturn(s, TransportErr("body"), <<Resp(o)>>)
            ELSE LET newbuf == copy_to(<<>>, o.body.v)
                 IN  SoloReturn([s EXCEPT !.buf = newbuf], Ok(newbuf),
                                <<Resp(o), Cb(CopySize(o.body.v))>>)
      [] OTHER -> s

\* the call alone, after it has received the answers outs in this order
RECURSIVE SoloAfter(_, _)
SoloAfter(args, outs) ==
    IF outs = <<>> THEN SoloStart
    ELSE SoloRecv(SoloSend(SoloAfter(args, SubSeq(outs, 1, Len(outs) - 1)), args),
                  args, outs[Len(outs)])

\* the answers call c has received, in order
Answers(c) == [k \in 1 .. Len(Responses(c)) |-> Responses(c)[k].outcome]

\* where the call alone stands after the answers c is through with, its
\* next request sent if c has sent it, and the response to it returned by
\* send() if c holds one whose body it has still to read
Alone(c) ==
    LET s == SoloAfter(call[c], Answers(c))
        t == IF Len(Requests(c)) > Len(Responses(c)) THEN SoloSend(s, call[c]) ELSE s
    IN  IF resp[c].some THEN SoloHead(t, resp[c].v) ELSE t

\* C18: when two get_as_data calls on the same client are interleaved step
\* by step in any order, each call's offset, buffer, sequence of requests,
\* callback values and final result (and its total, its probe result and
\* the point it has reached) are those of the same call run alone against
\* the answers it received.
C18_SameAsAlone ==
    \A c \in Calls :
        call[c].op = "get_as_data" =>
            LET a == Alone(c)
                cbs == SelectSeq(a.log, LAMBDA e : e.ev = "cb")
            IN  /\ offset[c] = a.offset
                /\ buf[c] = a.buf
                /\ Requests(c) = SelectSeq(a.log, LAMBDA e : e.ev = "req")
                /\ CbValues(c) = [k \in 1 .. Len(cbs) |-> cbs[k].value]
                /\ result[c] = a.result
                /\ total[c] = a.total
                /\ http_range[c] = a.http_range
                /\ resp[c] = a.resp
                /\ pc[c] = a.pc

\* both calls are in the middle of a ranged download of the same URL, each
\* with one chunk of its own in its buffer, one waiting for the body of
\* the response to its second ranged GET
C18_Witness ==
    /\ call[1].op = "get_as_data" /\ call[2].op = "get_as_data"
    /\ call[1].url = call[2].url
    /\ pc[1] = "range_get_body" /\ pc[2] = "range_get"
    /\ offset[1] = 2097152 /\ offset[2] = 2097152
    /\ buf[1] = <<1>> /\ buf[2] = <<2>>

(***************************************************************************)
(* get_as_data under fair scheduling: the code keeps running and every     *)
(* request it has sent eventually gets an outcome.                         *)
(***************************************************************************)
GetAsDataStep(c) ==
    \/ HasHttpRangeSend(c)
    \/ HasHttpRangeRecv(c)
    \/ GetContentLengthSend(c)
    \/ GetContentLengthRecv(c)
    \/ RangeGetSend(c)
    \/ RangeGetRecv(c)
    \/ RangeGetBody(c)
    \/ GetSend(c)
    \/ GetRecv(c)
    \/ GetBody(c)

InitData ==
    /\ InitCalls({1})
    /\ call[1].op = "get_as_data"

NextData == \E c \in Calls : GetAsDataStep(c)

SpecFair ==
    /\ InitData
    /\ [][NextData]_vars
    /\ \A c \in Calls : WF_vars(GetAsDataStep(c))

\* the length the content-length HEAD of call c came back with, if it did
LengthsAnswered(c) ==
    {log[c][j + 1].outcome.content_length.v :
        j \in {i \in 1 .. Len(log[c]) : LengthKnownAt(c, i)}}

\* the ranged GETs of every get_as_data call stay within the bound
RangedWithinBound ==
    \A c \in Calls :
        call[c].op = "get_as_data" =>
            /\ RangedGets(c) # <<>> => LengthsAnswered(c) # {}
            /\ \A tot \in LengthsAnswered(c) :
                  /\ Len(RangedGets(c)) <= (tot \div 2097152) + 1
                  /\ \A k \in 1 .. Len(RangesSent(c)) :
                        \E r \in RangeTable :
                            /\ r.text = RangesSent(c)[k]
                            /\ r.first % 2097152 = 0
                            /\ r.first <= tot

\* C19: for any finite total and any sequence of server responses (206,
\* 200, other statuses or transport errors, in any order) get_as_data
\* terminates, provided every request eventually gets an outcome; on the
\* ranged path it issues at most floor(total / CHUNK) + 1 ranged GETs, and
\* every ranged GET it issues starts at an offset that is a multiple of
\* CHUNK and is less than or equal to total.
C19_TerminatesWithinBound ==
    /\ <>(\A c \in Calls : pc[c] = "done")
    /\ [](RangedWithinBound)

\* a ranged download of total = CHUNK has ended after floor(total / CHUNK)
\* + 1 = 2 ranged GETs, the last one starting at offset = total
C19_Witness ==
    \E c \in Calls :
        /\ call[c].op = "get_as_data"
        /\ pc[c] = "done"
        /\ LengthsAnswered(c) = {2097152}
        /\ RangesSent(c) = <<"bytes=0-2097151", "bytes=2097152-4194303">>
        /\ result[c].kind = "ok"
====
